---- MODULE Spec2Model ----
(***************************************************************************)
(* A model of glfw_window (src/src/lib.rs): the GlfwWindow adapter that    *)
(* drains native GLFW window events into an ordered queue of Inputs,       *)
(* derives relative mouse motion and diffs joystick hardware state.        *)
(*                                                                         *)
(* Floating point values (cursor coordinates, axis positions, the          *)
(* deadzone) are modelled by integers; an Option is a sequence of length   *)
(* at most one; a HashMap<u8, _> is a function whose domain is its key     *)
(* set.                                                                    *)
(***************************************************************************)
EXTENDS Integers, Sequences, FiniteSets, TLC

VARIABLES
    pc,                 \* where the single caller thread is
    result,             \* what GlfwWindow::new / from_pieces returned
    window,             \* the native window (glfw::PWindow), its flags, and who
                        \* set should_close last (closed_by: "nobody", "native"
                        \* for the window system, "escape", "set_should_close")
    events,             \* Receiver<(f64, WindowEvent)>: messages the next pump delivers
    event_queue,        \* VecDeque<Input> (each Input with its provenance)
    last_mouse_pos,     \* Option<(f64, f64)>
    title,              \* String
    exit_on_esc,        \* bool
    automatic_close,    \* bool
    joystick_deadzone,  \* f64
    joysticks,          \* Vec<JoystickHelper>
    hardware,           \* what GLFW reports for each joystick slot
    ret,                \* the value returned by the last event call
    clock,              \* number of native events received so far (their timestamp)
    pushed,             \* number of push_back calls on event_queue so far
    returned,           \* number of Inputs handed to the caller so far
    last_time,          \* timestamp of the last window Input handed to the caller
    mouse,              \* what the pushed mouse Inputs add up to since the last reset
    hw_changes          \* number of hardware changes so far

vars == <<pc, result, window, events, event_queue, last_mouse_pos, title,
          exit_on_esc, automatic_close, joystick_deadzone, joysticks, hardware,
          ret, clock, pushed, returned, last_time, mouse, hw_changes>>

(***************************************************************************)
(* Bounds of the model.                                                    *)
(***************************************************************************)
NumJoysticks == 1       \* joystick slots polled (the code polls 16)
MaxControls == 1        \* axes, and buttons, a device reports, at most
MaxEnvSteps == 3        \* native events and hardware changes in one behaviour

(***************************************************************************)
(* Values.                                                                 *)
(***************************************************************************)
None == <<>>
Some(v) == <<v>>
IsSome(o) == Len(o) = 1
Unwrap(o) == o[1]

Abs(a) == IF a < 0 THEN -a ELSE a
AsU8(n) == n % 256

Titles == {"GLFW Window", "renamed"}
FromPiecesTitle == "<unknown window title, created from_pieces>"
AxisValues == {0, -2}
ButtonValues == {0, 1}
Deadzones == {0, 1}
CursorPositions == {<<0, 0>>, <<1, 0>>, <<1, 2>>}

\* The sequences over S of length lo..hi.
SeqsOf(S, lo, hi) == UNION {[1..n -> S] : n \in lo..hi}

Absent == [present |-> FALSE, axes |-> <<>>, buttons |-> <<>>]
HardwareStates ==
    {Absent} \cup
    {[present |-> TRUE, axes |-> a, buttons |-> b] :
        a \in SeqsOf(AxisValues, 0, MaxControls),
        b \in SeqsOf(ButtonValues, 0, MaxControls)}

(***************************************************************************)
(* Native window events (glfw::WindowEvent) and the Inputs they map to.    *)
(***************************************************************************)
KeyEvent(key, scancode, action) ==
    [type |-> "Key", key |-> key, scancode |-> scancode, action |-> action]
MouseButtonEvent(button, action) ==
    [type |-> "MouseButton", button |-> button, action |-> action]
CursorPosEvent(p) == [type |-> "CursorPos", x |-> p[1], y |-> p[2]]
CloseEvent == [type |-> "Close"]
CharEvent(ch) == [type |-> "Char", ch |-> ch]
ScrollEvent(x, y) == [type |-> "Scroll", x |-> x, y |-> y]
SizeEvent(w, h) == [type |-> "Size", w |-> w, h |-> h]
FocusEvent(f) == [type |-> "Focus", focus |-> f]
CursorEnterEvent(c) == [type |-> "CursorEnter", cursor |-> c]
FileDropEvent(files) == [type |-> "FileDrop", files |-> files]
PosEvent(x, y) == [type |-> "Pos", x |-> x, y |-> y]

EscapePress == KeyEvent("Escape", 9, "Press")
EscapeRelease == KeyEvent("Escape", 9, "Release")
KeyRepeat == KeyEvent("A", 38, "Repeat")

KeyEvents ==
    {KeyEvent(k[1], k[2], a) :
        k \in {<<"Escape", 9>>, <<"A", 38>>}, a \in {"Press", "Release", "Repeat"}}
MouseButtonEvents ==
    {MouseButtonEvent(b, a) :
        b \in {"Button1", "Button2"}, a \in {"Press", "Release", "Repeat"}}
CursorPosEvents == {CursorPosEvent(p) : p \in CursorPositions}
OtherEvents ==
    {CloseEvent, CharEvent("x"), ScrollEvent(0, 1), SizeEvent(640, 480),
     FocusEvent(TRUE), CursorEnterEvent(FALSE), FileDropEvent(<<>>),
     FileDropEvent(<<"a.txt", "b.txt">>), PosEvent(3, 4)}

glfw_map_key(keycode) ==
    CASE keycode = "A" -> "A"
      [] keycode = "Apostrophe" -> "Unknown"
      [] keycode = "Enter" -> "Return"
      [] keycode = "Escape" -> "Escape"
      [] keycode = "World1" -> "Unknown"
      [] keycode = "Unknown" -> "Unknown"

glfw_map_mouse(mouse_button) ==
    CASE mouse_button = "Button1" -> "Left"
      [] mouse_button = "Button2" -> "Right"
      [] mouse_button = "Button3" -> "Middle"

InputClose == [kind |-> "Close"]
InputText(s) == [kind |-> "Text", text |-> s]
InputButton(state, button, scancode) ==
    [kind |-> "Button", state |-> state, button |-> button, scancode |-> scancode]
Keyboard(key) == [device |-> "Keyboard", key |-> key]
Mouse(button) == [device |-> "Mouse", mouse |-> button]
Controller(id, button) == [device |-> "Controller", id |-> id, index |-> button]
MouseCursor(p) == [kind |-> "Move", motion |-> "MouseCursor", pos |-> p]
MouseRelative(p) == [kind |-> "Move", motion |-> "MouseRelative", pos |-> p]
MouseScroll(p) == [kind |-> "Move", motion |-> "MouseScroll", pos |-> p]
ControllerAxis(id, axis, position) ==
    [kind |-> "Move", motion |-> "ControllerAxis", id |-> id, axis |-> axis,
     position |-> position]
InputResize(window_size, draw_size) ==
    [kind |-> "Resize", window_size |-> window_size, draw_size |-> draw_size]
InputFocus(f) == [kind |-> "Focus", focus |-> f]
InputCursor(c) == [kind |-> "Cursor", cursor |-> c]
FileDragDrop(file) == [kind |-> "FileDrag", drop |-> file]

IsMotion(input, m) == input.kind = "Move" /\ input.motion = m

(***************************************************************************)
(* The state one flush works on: the queue, the mouse position, the        *)
(* window's close flag, and the running counts kept beside them.           *)
(*   q            event_queue                                              *)
(*   last         last_mouse_pos                                           *)
(*   should_close window.should_close                                      *)
(*   closed_by    who set should_close last: see the window below          *)
(*   n            the number of push_back calls so far                     *)
(*   mouse        first and last MouseCursor position pushed since the     *)
(*                last reset of last_mouse_pos, and the sum of the         *)
(*                MouseRelative deltas pushed since then                   *)
(***************************************************************************)
NoMouse == [first |-> None, last |-> None, sum |-> <<0, 0>>]

\* What the mouse Inputs pushed so far add up to, after one more.
ObserveMouse(m, input) ==
    IF IsMotion(input, "MouseCursor")
    THEN [m EXCEPT !.first = IF IsSome(@) THEN @ ELSE Some(input.pos),
                   !.last = Some(input.pos)]
    ELSE IF IsMotion(input, "MouseRelative")
    THEN [m EXCEPT !.sum = <<@[1] + input.pos[1], @[2] + input.pos[2]>>]
    ELSE m

\* VecDeque::push_back. An entry keeps, beside the Input, its push number,
\* where it comes from ("window" or "controller"), the timestamp of the
\* native message (0 for a controller Input), and the deadzone and the
\* last_mouse_pos in effect when it was produced.
push_back(st, input, from, t, deadzone) ==
    [st EXCEPT !.q = Append(@, [input |-> input, seq |-> st.n, from |-> from,
                                 t |-> t, deadzone |-> deadzone,
                                 last |-> st.last]),
               !.n = @ + 1,
               !.mouse = ObserveMouse(@, input)]

\* pop_front taking the newest entry instead of the oldest.
pop_back(q) ==
    IF q = <<>> THEN <<None, q>> ELSE <<Some(q[Len(q)]), SubSeq(q, 1, Len(q) - 1)>>

\* VecDeque::pop_front: <<the Option popped, the rest>>.
pop_front(q) == IF q = <<>> THEN <<None, q>> ELSE <<Some(Head(q)), Tail(q)>>

\* The relative motion with its operands swapped.
RelativeMotionSwapped(x, y, lx, ly) == <<lx - x, ly - y>>

\* [x - lx, y - ly]
RelativeMotion(x, y, lx, ly) == <<x - lx, y - ly>>

\* The CursorPos arm that skips a relative motion of zero.
OnCursorPosDeduplicated(st, t, x, y) ==
    LET st1 == push_back(st, MouseCursor(<<x, y>>), "window", t, 0)
        st2 == IF IsSome(st.last) /\ Unwrap(st.last) # <<x, y>>
               THEN push_back(st1,
                        MouseRelative(RelativeMotion(x, y, Unwrap(st.last)[1],
                                                      Unwrap(st.last)[2])),
                        "window", t, 0)
               ELSE st1
    IN  [st2 EXCEPT !.last = Some(<<x, y>>)]

\* The arm of flush_messages for CursorPos(x, y).
OnCursorPos(st, t, x, y) ==
    LET st1 == push_back(st, MouseCursor(<<x, y>>), "window", t, 0)
        st2 == IF IsSome(st.last)
               THEN push_back(st1,
                        MouseRelative(RelativeMotion(x, y, Unwrap(st.last)[1],
                                                      Unwrap(st.last)[2])),
                        "window", t, 0)
               ELSE st1
    IN  [st2 EXCEPT !.last = Some(<<x, y>>)]

\* The FileDrop arm taking the files from the last to the first.
RECURSIVE OnFileDropReversed(_, _, _, _)
OnFileDropReversed(st, t, files, i) ==
    IF i > Len(files) THEN st
    ELSE OnFileDropReversed(
            push_back(st, FileDragDrop(files[Len(files) - i + 1]), "window", t, 0),
            t, files, i + 1)

RECURSIVE OnFileDrop(_, _, _, _)
OnFileDrop(st, t, files, i) ==
    IF i > Len(files) THEN st
    ELSE OnFileDrop(push_back(st, FileDragDrop(files[i]), "window", t, 0),
                    t, files, i + 1)

\* The first arm's pattern taken whatever exit_on_esc is.
IsEscapePress(event, exit) ==
    event.type = "Key" /\ event.key = "Escape" /\ event.action = "Press"

\* The pattern and guard of the first arm: Key(Escape, _, Press, _) if
\* self.exit_on_esc.
IsExitPress(event, exit) ==
    event.type = "Key" /\ event.key = "Escape" /\ event.action = "Press" /\ exit

\* The Close arm without its reset of the close flag.
OnCloseKeepingFlag(st, t, auto_close) ==
    push_back(st, InputClose, "window", t, 0)

\* The arm of flush_messages for Close.
OnClose(st, t, auto_close) ==
    push_back(IF ~auto_close
              THEN [st EXCEPT !.should_close = FALSE, !.closed_by = "nobody"]
              ELSE st,
              InputClose, "window", t, 0)

\* One iteration of the for loop of flush_messages: the match on the event.
OnEvent(st, msg, exit, auto_close, draw_size) ==
    LET t == msg[1]
        event == msg[2]
    IN
    IF IsExitPress(event, exit)
    THEN [st EXCEPT !.should_close = TRUE, !.closed_by = "escape"]
    ELSE IF event.type = "Close"
    THEN OnClose(st, t, auto_close)
    ELSE IF event.type = "Char"
    THEN push_back(st, InputText(event.ch), "window", t, 0)
    ELSE IF event.type = "Key" /\ event.action = "Press"
    THEN push_back(st, InputButton("Press", Keyboard(glfw_map_key(event.key)),
                                   Some(event.scancode)), "window", t, 0)
    ELSE IF event.type = "Key" /\ event.action = "Release"
    THEN push_back(st, InputButton("Release", Keyboard(glfw_map_key(event.key)),
                                   Some(event.scancode)), "window", t, 0)
    ELSE IF event.type = "MouseButton" /\ event.action = "Press"
    THEN push_back(st, InputButton("Press", Mouse(glfw_map_mouse(event.button)),
                                   None), "window", t, 0)
    ELSE IF event.type = "MouseButton" /\ event.action = "Release"
    THEN push_back(st, InputButton("Release", Mouse(glfw_map_mouse(event.button)),
                                   None), "window", t, 0)
    ELSE IF event.type = "CursorPos"
    THEN OnCursorPos(st, t, event.x, event.y)
    ELSE IF event.type = "Scroll"
    THEN push_back(st, MouseScroll(<<event.x, event.y>>), "window", t, 0)
    ELSE IF event.type = "Size"
    THEN push_back(st, InputResize(<<event.w, event.h>>, draw_size), "window", t, 0)
    ELSE IF event.type = "Focus"
    THEN push_back(st, InputFocus(event.focus), "window", t, 0)
    ELSE IF event.type = "CursorEnter"
    THEN push_back(st, InputCursor(event.cursor), "window", t, 0)
    ELSE IF event.type = "FileDrop"
    THEN OnFileDrop(st, t, event.files, 1)
    ELSE st

\* The for loop over glfw::flush_messages(&self.events), in channel order.
RECURSIVE FlushEvents(_, _, _, _, _, _)
FlushEvents(st, msgs, i, exit, auto_close, draw_size) ==
    IF i > Len(msgs) THEN st
    ELSE FlushEvents(OnEvent(st, msgs[i], exit, auto_close, draw_size),
                     msgs, i + 1, exit, auto_close, draw_size)

(***************************************************************************)
(* JoystickHelper.                                                         *)
(***************************************************************************)
EmptyMap == <<>>
\* HashMap::insert
Insert(map, k, v) == [x \in DOMAIN map \cup {k} |-> IF x = k THEN v ELSE map[x]]

\* JoystickHelper::new
NewJoystickHelper(id) ==
    [id |-> id, connected |-> FALSE, buttons |-> EmptyMap, axes |-> EmptyMap]

\* The pressed state stored for a button when the joystick is first seen.
BaselinePressed(a) == a > 1
\* The pressed state of a button on a later update.
Pressed(a) == a > 0

\* The axis test without its deadzone half.
AxisSkippedUnchanged(a, previous, deadzone) == a = previous

\* The test of the axis loop that skips an axis.
AxisSkipped(a, previous, deadzone) == a = previous \/ Abs(a) < deadzone
\* The test of the button loop that skips a button.
ButtonSkipped(pressed, previous) == pressed = previous

RECURSIVE InsertAxes(_, _, _)
InsertAxes(map, axes, i) ==
    IF i > Len(axes) THEN map
    ELSE InsertAxes(Insert(map, AsU8(i - 1), axes[i]), axes, i + 1)

RECURSIVE InsertButtons(_, _, _)
InsertButtons(map, buttons, i) ==
    IF i > Len(buttons) THEN map
    ELSE InsertButtons(Insert(map, AsU8(i - 1), BaselinePressed(buttons[i])),
                       buttons, i + 1)

\* The loops below work on r = [helper, st, panicked]; get_mut(..).unwrap()
\* on a missing key panics, which ends the update where it stands.
\* The axis loop storing a value it skips for the deadzone.
RECURSIVE CheckAxesTracking(_, _, _, _)
CheckAxesTracking(r, axes, i, deadzone) ==
    IF i > Len(axes) THEN r
    ELSE LET axis == AsU8(i - 1)
             a == axes[i]
         IN  IF axis \notin DOMAIN r.helper.axes
             THEN [r EXCEPT !.panicked = TRUE]
             ELSE IF AxisSkipped(a, r.helper.axes[axis], deadzone)
             THEN CheckAxesTracking([r EXCEPT !.helper.axes[axis] = a],
                                    axes, i + 1, deadzone)
             ELSE CheckAxesTracking(
                     [r EXCEPT !.helper.axes[axis] = a,
                               !.st = push_back(@, ControllerAxis(r.helper.id, axis, a),
                                                "controller", 0, deadzone)],
                     axes, i + 1, deadzone)

RECURSIVE CheckAxes(_, _, _, _)
CheckAxes(r, axes, i, deadzone) ==
    IF i > Len(axes) THEN r
    ELSE LET axis == AsU8(i - 1)
             a == axes[i]
         IN  IF axis \notin DOMAIN r.helper.axes
             THEN [r EXCEPT !.panicked = TRUE]
             ELSE IF AxisSkipped(a, r.helper.axes[axis], deadzone)
             THEN CheckAxes(r, axes, i + 1, deadzone)
             ELSE CheckAxes(
                     [r EXCEPT !.helper.axes[axis] = a,
                               !.st = push_back(@, ControllerAxis(r.helper.id, axis, a),
                                                "controller", 0, deadzone)],
                     axes, i + 1, deadzone)

RECURSIVE CheckButtons(_, _, _, _)
CheckButtons(r, buttons, i, deadzone) ==
    IF i > Len(buttons) THEN r
    ELSE LET button == AsU8(i - 1)
             pressed == Pressed(buttons[i])
         IN  IF button \notin DOMAIN r.helper.buttons
             THEN [r EXCEPT !.panicked = TRUE]
             ELSE IF ButtonSkipped(pressed, r.helper.buttons[button])
             THEN CheckButtons(r, buttons, i + 1, deadzone)
             ELSE CheckButtons(
                     [r EXCEPT !.helper.buttons[button] = pressed,
                               !.st = push_back(@,
                                        InputButton(IF pressed THEN "Press" ELSE "Release",
                                                    Controller(r.helper.id, button), None),
                                        "controller", 0, deadzone)],
                     buttons, i + 1, deadzone)

\* update that keeps the stored maps when the joystick has gone.
updateKeepingMaps(r, hw, deadzone) ==
    IF ~hw.present /\ ~r.helper.connected THEN r
    ELSE IF ~hw.present /\ r.helper.connected
    THEN [r EXCEPT !.helper.connected = FALSE]
    ELSE IF hw.present /\ ~r.helper.connected
    THEN [r EXCEPT !.helper.connected = TRUE,
                   !.helper.axes = InsertAxes(@, hw.axes, 1),
                   !.helper.buttons = InsertButtons(@, hw.buttons, 1)]
    ELSE LET r1 == CheckAxes(r, hw.axes, 1, deadzone)
         IN  IF r1.panicked THEN r1 ELSE CheckButtons(r1, hw.buttons, 1, deadzone)

\* JoystickHelper::update on helper r.helper with the hardware state hw.
update(r, hw, deadzone) ==
    IF ~hw.present /\ ~r.helper.connected THEN r
    ELSE IF ~hw.present /\ r.helper.connected
    THEN [r EXCEPT !.helper.connected = FALSE,
                   !.helper.buttons = EmptyMap,
                   !.helper.axes = EmptyMap]
    ELSE IF hw.present /\ ~r.helper.connected
    THEN [r EXCEPT !.helper.connected = TRUE,
                   !.helper.axes = InsertAxes(@, hw.axes, 1),
                   !.helper.buttons = InsertButtons(@, hw.buttons, 1)]
    ELSE LET r1 == CheckAxes(r, hw.axes, 1, deadzone)
         IN  IF r1.panicked THEN r1 ELSE CheckButtons(r1, hw.buttons, 1, deadzone)

\* The for loop over self.joysticks; f = [helpers, st, panicked].
RECURSIVE UpdateJoysticks(_, _, _, _)
UpdateJoysticks(f, hws, j, deadzone) ==
    IF j > Len(f.helpers) \/ f.panicked THEN f
    ELSE LET r == update([helper |-> f.helpers[j], st |-> f.st, panicked |-> FALSE],
                         hws[j], deadzone)
         IN  UpdateJoysticks([helpers |-> [f.helpers EXCEPT ![j] = r.helper],
                              st |-> r.st, panicked |-> r.panicked],
                             hws, j + 1, deadzone)

(***************************************************************************)
(* GlfwWindow.                                                             *)
(***************************************************************************)
\* What glfw's pump does to the native window before the callbacks' messages
\* are read: a close request sets the close flag, a resize the framebuffer.
RECURSIVE Pump(_, _, _)
Pump(w, msgs, i) ==
    IF i > Len(msgs) THEN w
    ELSE LET event == msgs[i][2]
         IN  Pump(IF event.type = "Close" THEN [w EXCEPT !.should_close = TRUE, !.closed_by = "native"]
                  ELSE IF event.type = "Size"
                  THEN [w EXCEPT !.framebuffer = <<event.w, event.h>>]
                  ELSE w,
                  msgs, i + 1)

\* Window::draw_size
draw_size(w) == w.framebuffer

\* GlfwWindow::flush_messages after the pump: the new
\* [helpers, st, panicked], st the flush state described above.
flush_messages ==
    LET w == Pump(window, events, 1)
        st0 == [q |-> event_queue, last |-> last_mouse_pos,
                should_close |-> w.should_close, closed_by |-> w.closed_by,
                n |-> pushed, mouse |-> mouse]
        st1 == FlushEvents(st0, events, 1, exit_on_esc, automatic_close, draw_size(w))
    IN  UpdateJoysticks([helpers |-> joysticks, st |-> st1, panicked |-> FALSE],
                        hardware, 1, joystick_deadzone)

(***************************************************************************)
(* Construction.                                                           *)
(***************************************************************************)
Api(name, major, minor) == [api |-> name, major |-> major, minor |-> minor]
ApiOpenGL(major, minor) == Api("OpenGL", major, minor)

WindowSettings ==
    [title : {"GLFW Window"},
     size : {<<640, 480>>},
     graphics_api : {None, Some(ApiOpenGL(2, 1)), Some(Api("Vulkan", 1, 0))},
     exit_on_esc : BOOLEAN,
     automatic_close : BOOLEAN,
     controllers : BOOLEAN]

NoWindow ==
    [created |-> FALSE, should_close |-> FALSE, closed_by |-> "nobody", title |-> "",
     cursor_mode |-> "Normal", framebuffer |-> <<0, 0>>]
NoResult == [kind |-> "none"]
Ok == [kind |-> "Ok"]
Err(e) == [kind |-> "Err", error |-> e]
UnsupportedGraphicsApiError(found, expected) ==
    [type |-> "UnsupportedGraphicsApiError", found |-> found, expected |-> expected]
InitError == [type |-> "InitError"]
CreateWindowError == [type |-> "Failed to create GLFW window."]
NoRet == [op |-> "none", value |-> None]

AllJoysticks == [j \in 1..NumJoysticks |-> NewJoystickHelper(j - 1)]

\* settings.get_maybe_graphics_api().unwrap_or(Api::opengl(3, 2))
GraphicsApi(settings) ==
    IF IsSome(settings.graphics_api) THEN Unwrap(settings.graphics_api)
    ELSE ApiOpenGL(3, 2)

\* The steps of new with the API check after glfw.create_window.
NewOutcomeCheckedLate(settings, init_ok, create_ok) ==
    LET api == IF IsSome(settings.graphics_api) THEN Unwrap(settings.graphics_api)
               ELSE ApiOpenGL(3, 2)
    IN  IF ~init_ok THEN [result |-> Err(InitError), native |-> FALSE]
        ELSE IF ~create_ok THEN [result |-> Err(CreateWindowError), native |-> FALSE]
        ELSE IF api.api # "OpenGL"
        THEN [result |-> Err(UnsupportedGraphicsApiError(api.api, <<"OpenGL">>)),
              native |-> TRUE]
        ELSE [result |-> Ok, native |-> TRUE]

\* The order of the fallible steps of GlfwWindow::new: what it returns, and
\* whether glfw.create_window was reached and made a native window.
NewOutcome(settings, init_ok, create_ok) ==
    LET api == GraphicsApi(settings)
    IN  IF ~init_ok THEN [result |-> Err(InitError), native |-> FALSE]
        ELSE IF api.api # "OpenGL"
        THEN [result |-> Err(UnsupportedGraphicsApiError(api.api, <<"OpenGL">>)),
              native |-> FALSE]
        ELSE IF ~create_ok THEN [result |-> Err(CreateWindowError), native |-> FALSE]
        ELSE [result |-> Ok, native |-> TRUE]

\* GlfwWindow::new(settings); init_ok and create_ok are whether
\* glfw::init_no_callbacks and glfw.create_window succeed.
New(settings, init_ok, create_ok) ==
    LET o == NewOutcome(settings, init_ok, create_ok)
    IN  /\ pc = "new"
        /\ result' = o.result
        /\ window' = IF o.native
                     THEN [created |-> TRUE, should_close |-> FALSE, closed_by |-> "nobody",
                           title |-> settings.title, cursor_mode |-> "Normal",
                           framebuffer |-> settings.size]
                     ELSE window
        /\ IF o.result = Ok
           THEN /\ pc' = "idle"
                /\ joysticks' = IF settings.controllers THEN AllJoysticks ELSE <<>>
                /\ title' = settings.title
                /\ exit_on_esc' = settings.exit_on_esc
                /\ automatic_close' = settings.automatic_close
           ELSE /\ pc' = "failed"
                /\ UNCHANGED <<joysticks, title, exit_on_esc, automatic_close>>
        /\ UNCHANGED <<events, event_queue, last_mouse_pos, joystick_deadzone,
                       hardware, ret, clock, pushed, returned, last_time, mouse,
                       hw_changes>>

\* GlfwWindow::from_pieces(win, glfw, events, exit) on an existing native
\* window whose title is native_title.
FromPieces(native_title, exit) ==
    /\ pc = "new"
    /\ pc' = "idle"
    /\ result' = Ok
    /\ window' = [created |-> TRUE, should_close |-> FALSE, closed_by |-> "nobody",
                  title |-> native_title,
                  cursor_mode |-> "Normal", framebuffer |-> <<640, 480>>]
    /\ joysticks' = AllJoysticks
    /\ title' = FromPiecesTitle
    /\ exit_on_esc' = exit
    /\ automatic_close' = TRUE
    /\ UNCHANGED <<events, event_queue, last_mouse_pos, joystick_deadzone,
                   hardware, ret, clock, pushed, returned, last_time, mouse,
                   hw_changes>>

(***************************************************************************)
(* The event calls.                                                        *)
(***************************************************************************)
\* What a pump followed by flush_messages, with outcome f, leaves behind.
Flushed(f) ==
    /\ window' = [Pump(window, events, 1) EXCEPT !.should_close = f.st.should_close,
                                                !.closed_by = f.st.closed_by]
    /\ events' = <<>>
    /\ last_mouse_pos' = f.st.last
    /\ joysticks' = f.helpers
    /\ pushed' = f.st.n
    /\ mouse' = f.st.mouse

\* A call that pumps the channel although it does not flush.
PumpedNotFlushed ==
    /\ window' = Pump(window, events, 1)
    /\ events' = <<>>
    /\ UNCHANGED <<last_mouse_pos, joysticks, pushed, mouse>>

NotFlushed == UNCHANGED <<window, events, last_mouse_pos, joysticks, pushed, mouse>>

\* self.event_queue.pop_front().map(|x| Event::Input(x, None)), returned by op.
Return(op, q) ==
    LET p == pop_front(q)
    IN  /\ event_queue' = p[2]
        /\ ret' = [op |-> op, value |-> p[1]]
        /\ returned' = IF IsSome(p[1]) THEN returned + 1 ELSE returned
        /\ last_time' = IF IsSome(p[1]) /\ Unwrap(p[1]).from = "window"
                        THEN Unwrap(p[1]).t ELSE last_time

\* A panic inside flush_messages: the call never returns.
Panic(f) ==
    /\ pc' = "panicked"
    /\ event_queue' = f.st.q
    /\ UNCHANGED <<ret, returned, last_time>>

\* The body of poll_event that flushes whatever the queue holds.
PumpFlushPopAlways(op) ==
    /\ pc = "idle"
    /\ LET f == flush_messages
       IN  /\ Flushed(f)
           /\ IF f.panicked THEN Panic(f)
              ELSE /\ Return(op, f.st.q)
                   /\ pc' = "idle"
    /\ UNCHANGED <<result, title, exit_on_esc, automatic_close, joystick_deadzone,
                   hardware, clock, hw_changes>>

\* The body shared by poll_event and wait_event_timeout.
PumpFlushPop(op) ==
    /\ pc = "idle"
    /\ IF Len(event_queue) = 0
       THEN LET f == flush_messages
            IN  /\ Flushed(f)
                /\ IF f.panicked THEN Panic(f)
                   ELSE /\ Return(op, f.st.q)
                        /\ pc' = "idle"
       ELSE /\ NotFlushed
            /\ Return(op, event_queue)
            /\ pc' = "idle"
    /\ UNCHANGED <<result, title, exit_on_esc, automatic_close, joystick_deadzone,
                   hardware, clock, hw_changes>>

\* GlfwWindow::poll_event
PollEvent == PumpFlushPop("poll_event")

\* GlfwWindow::wait_event_timeout: the native events that arrive before the
\* timeout are those in the channel when it flushes.
WaitEventTimeout == PumpFlushPop("wait_event_timeout")

\* GlfwWindow::wait_event, up to its first glfw.wait_events(): with a
\* non-empty queue it returns at once, otherwise the thread blocks.
WaitEvent ==
    /\ pc = "idle"
    /\ IF Len(event_queue) = 0
       THEN /\ pc' = "wait_events"
            /\ UNCHANGED <<event_queue, ret, returned, last_time>>
       ELSE /\ Return("wait_event", event_queue)
            /\ pc' = "idle"
    /\ NotFlushed
    /\ UNCHANGED <<result, title, exit_on_esc, automatic_close, joystick_deadzone,
                   hardware, clock, hw_changes>>

\* glfw.wait_events() returns once at least one native event is available;
\* wait_event then flushes, and returns an Input or goes round the loop.
WaitEventsWake ==
    /\ pc = "wait_events"
    /\ events # <<>>
    /\ LET f == flush_messages
       IN  /\ Flushed(f)
           /\ IF f.panicked THEN Panic(f)
              ELSE IF f.st.q = <<>>
              THEN /\ pc' = "wait_events"
                   /\ UNCHANGED <<event_queue, ret, returned, last_time>>
              ELSE /\ Return("wait_event", f.st.q)
                   /\ pc' = "idle"
    /\ UNCHANGED <<result, title, exit_on_esc, automatic_close, joystick_deadzone,
                   hardware, clock, hw_changes>>

(***************************************************************************)
(* The other calls.                                                        *)
(***************************************************************************)
\* AdvancedWindow::get_title
get_title == title

\* AdvancedWindow::set_title
SetTitle(value) ==
    /\ pc = "idle"
    /\ window' = [window EXCEPT !.title = value]
    /\ UNCHANGED <<pc, result, events, event_queue, last_mouse_pos, title,
                   exit_on_esc, automatic_close, joystick_deadzone, joysticks,
                   hardware, ret, clock, pushed, returned, last_time, mouse,
                   hw_changes>>

\* AdvancedWindow::set_exit_on_esc
SetExitOnEsc(value) ==
    /\ pc = "idle"
    /\ exit_on_esc' = value
    /\ UNCHANGED <<pc, result, window, events, event_queue, last_mouse_pos, title,
                   automatic_close, joystick_deadzone, joysticks, hardware, ret,
                   clock, pushed, returned, last_time, mouse, hw_changes>>

\* AdvancedWindow::set_automatic_close
SetAutomaticClose(value) ==
    /\ pc = "idle"
    /\ automatic_close' = value
    /\ UNCHANGED <<pc, result, window, events, event_queue, last_mouse_pos, title,
                   exit_on_esc, joystick_deadzone, joysticks, hardware, ret,
                   clock, pushed, returned, last_time, mouse, hw_changes>>

\* Window::set_should_close
SetShouldClose(value) ==
    /\ pc = "idle"
    /\ window' = [window EXCEPT !.should_close = value,
                                 !.closed_by = IF value THEN "set_should_close"
                                               ELSE "nobody"]
    /\ UNCHANGED <<pc, result, events, event_queue, last_mouse_pos, title,
                   exit_on_esc, automatic_close, joystick_deadzone, joysticks,
                   hardware, ret, clock, pushed, returned, last_time, mouse,
                   hw_changes>>

\* Window::should_close
should_close == window.should_close

\* capture_cursor that only switches the cursor mode.
SetCaptureCursorModeOnly(enabled) ==
    /\ pc = "idle"
    /\ window' = [window EXCEPT !.cursor_mode = IF enabled THEN "Disabled" ELSE "Normal"]
    /\ UNCHANGED <<last_mouse_pos, mouse>>
    /\ UNCHANGED <<pc, result, events, event_queue, title, exit_on_esc,
                   automatic_close, joystick_deadzone, joysticks, hardware, ret,
                   clock, pushed, returned, last_time, hw_changes>>

\* GlfwWindow::capture_cursor, called by AdvancedWindow::set_capture_cursor
SetCaptureCursor(enabled) ==
    /\ pc = "idle"
    /\ IF enabled
       THEN /\ window' = [window EXCEPT !.cursor_mode = "Disabled"]
            /\ UNCHANGED <<last_mouse_pos, mouse>>
       ELSE /\ window' = [window EXCEPT !.cursor_mode = "Normal"]
            /\ last_mouse_pos' = None
            /\ mouse' = NoMouse
    /\ UNCHANGED <<pc, result, events, event_queue, title, exit_on_esc,
                   automatic_close, joystick_deadzone, joysticks, hardware, ret,
                   clock, pushed, returned, last_time, hw_changes>>

\* An assignment to the public field joystick_deadzone.
SetJoystickDeadzone(value) ==
    /\ pc = "idle"
    /\ joystick_deadzone' = value
    /\ UNCHANGED <<pc, result, window, events, event_queue, last_mouse_pos, title,
                   exit_on_esc, automatic_close, joysticks, hardware, ret, clock,
                   pushed, returned, last_time, mouse, hw_changes>>

(***************************************************************************)
(* The environment.                                                        *)
(***************************************************************************)
\* The window system has a native event for the window; the next pump
\* sends it down the channel with its timestamp.
NativeEvent(event) ==
    /\ pc \in {"idle", "wait_events"}
    /\ clock + hw_changes < MaxEnvSteps
    /\ clock' = clock + 1
    /\ events' = Append(events, <<clock + 1, event>>)
    /\ UNCHANGED <<pc, result, window, event_queue, last_mouse_pos, title,
                   exit_on_esc, automatic_close, joystick_deadzone, joysticks,
                   hardware, ret, pushed, returned, last_time, mouse, hw_changes>>

\* A device reports its axes centred and its buttons released.
AtRest(hw) ==
    /\ hw.present
    /\ \A i \in DOMAIN hw.axes : hw.axes[i] = 0
    /\ \A i \in DOMAIN hw.buttons : hw.buttons[i] = 0

SameShape(old, hw) ==
    Len(old.axes) = Len(hw.axes) /\ Len(old.buttons) = Len(hw.buttons)

\* The number of controls on which two states of one device differ.
Differences(old, hw) ==
    Cardinality({i \in DOMAIN hw.axes : hw.axes[i] # old.axes[i]})
    + Cardinality({i \in DOMAIN hw.buttons : hw.buttons[i] # old.buttons[i]})

\* One change of the hardware in a slot: the device is unplugged; a device
\* is plugged into the free slot, or takes the place of one of another
\* shape; or one axis or one button of the device moves.
OneChange(old, hw) ==
    \/ old.present /\ ~hw.present
    \/ ~old.present /\ AtRest(hw)
    \/ old.present /\ AtRest(hw) /\ ~SameShape(old, hw)
    \/ old.present /\ hw.present /\ SameShape(old, hw) /\ Differences(old, hw) = 1

\* The hardware in slot j changes while the program is not looking.
HardwareChange(j, hw) ==
    /\ pc \in {"new", "idle", "wait_events"}
    /\ clock + hw_changes < MaxEnvSteps
    /\ OneChange(hardware[j], hw)
    /\ hw_changes' = hw_changes + 1
    /\ hardware' = [hardware EXCEPT ![j] = hw]
    /\ UNCHANGED <<pc, result, window, events, event_queue, last_mouse_pos, title,
                   exit_on_esc, automatic_close, joystick_deadzone, joysticks,
                   ret, clock, pushed, returned, last_time, mouse>>

(***************************************************************************)
(* Specifications.                                                         *)
(***************************************************************************)
Init ==
    /\ pc = "new"
    /\ result = NoResult
    /\ window = NoWindow
    /\ events = <<>>
    /\ event_queue = <<>>
    /\ last_mouse_pos = None
    /\ title = ""
    /\ exit_on_esc = FALSE
    /\ automatic_close = FALSE
    /\ joystick_deadzone = 0
    /\ joysticks = <<>>
    /\ hardware = [j \in 1..NumJoysticks |-> Absent]
    /\ ret = NoRet
    /\ clock = 0
    /\ pushed = 0
    /\ returned = 0
    /\ last_time = 0
    /\ mouse = NoMouse
    /\ hw_changes = 0

AllEvents == KeyEvents \cup MouseButtonEvents \cup CursorPosEvents \cup OtherEvents

\* The calls that return events.
EventCalls ==
    \/ PollEvent
    \/ WaitEventTimeout
    \/ WaitEvent
    \/ WaitEventsWake

\* Construction and the title: every way to build the window, set_title,
\* and a key press and an Escape press to be polled.
PlainEventSet == {KeyEvent("A", 38, "Press"), EscapePress}

Next ==
    \/ \E s \in WindowSettings, init_ok \in BOOLEAN, create_ok \in BOOLEAN :
          New(s, init_ok, create_ok)
    \/ \E t \in Titles, exit \in BOOLEAN : FromPieces(t, exit)
    \/ EventCalls
    \/ \E v \in Titles : SetTitle(v)
    \/ \E e \in PlainEventSet : NativeEvent(e)

Spec == Init /\ [][Next]_vars

\* The mouse: a window without controllers, cursor positions arriving,
\* the cursor being captured and released.
MouseSettings ==
    {s \in WindowSettings :
        /\ s.graphics_api = None /\ ~s.controllers
        /\ ~s.exit_on_esc /\ s.automatic_close}

MouseNext ==
    \/ \E s \in MouseSettings : New(s, TRUE, TRUE)
    \/ EventCalls
    \/ \E b \in BOOLEAN : SetCaptureCursor(b)
    \/ \E e \in CursorPosEvents : NativeEvent(e)

MouseSpec == Init /\ [][MouseNext]_vars

\* The controllers: a window built with controllers, the hardware changing
\* under it, the deadzone being set, and the queue being polled.
ControllerSettings ==
    {s \in WindowSettings :
        /\ s.graphics_api = None /\ s.controllers
        /\ s.exit_on_esc /\ s.automatic_close}

ControllerNext ==
    \/ \E s \in ControllerSettings : New(s, TRUE, TRUE)
    \/ PollEvent
    \/ \E d \in Deadzones : SetJoystickDeadzone(d)
    \/ \E j \in 1..NumJoysticks, hw \in HardwareStates : HardwareChange(j, hw)

ControllerSpec == Init /\ [][ControllerNext]_vars

\* The queue: the same window, with native events that map to two Inputs,
\* to one and to none arriving while the hardware changes, and every call
\* that returns events.
QueueEventSet == {CursorPosEvent(<<1, 0>>), EscapePress}

\* Controllers that have buttons and no axes.
ButtonsOnly == {hw \in HardwareStates : hw.axes = <<>>}

QueueNext ==
    \/ \E s \in ControllerSettings : New(s, TRUE, TRUE)
    \/ EventCalls
    \/ \E e \in QueueEventSet : NativeEvent(e)
    \/ \E j \in 1..NumJoysticks, hw \in ButtonsOnly : HardwareChange(j, hw)

QueueSpec == Init /\ [][QueueNext]_vars

\* A program that polls and waits, with the one progress the code gives:
\* glfw.wait_events() returns when a native event is available.
LiveNext ==
    \/ \E s \in ControllerSettings : New(s, TRUE, TRUE)
    \/ PollEvent
    \/ WaitEvent
    \/ WaitEventsWake
    \/ \E e \in QueueEventSet : NativeEvent(e)
    \/ \E j \in 1..NumJoysticks, hw \in HardwareStates : HardwareChange(j, hw)

LiveSpec == Init /\ [][LiveNext]_vars /\ WF_vars(WaitEventsWake)

\* Closing: a window without controllers, Escape and close requests
\* arriving, the three flags being set by the program.
ClosingSettings ==
    {s \in WindowSettings : s.graphics_api = None /\ ~s.controllers}

ClosingEventSet == {EscapePress, EscapeRelease, CloseEvent}

ClosingNext ==
    \/ \E s \in ClosingSettings : New(s, TRUE, TRUE)
    \/ PollEvent
    \/ \E v \in BOOLEAN : SetExitOnEsc(v)
    \/ \E v \in BOOLEAN : SetAutomaticClose(v)
    \/ \E v \in BOOLEAN : SetShouldClose(v)
    \/ \E e \in ClosingEventSet : NativeEvent(e)

ClosingSpec == Init /\ [][ClosingNext]_vars

\* Normalisation: a window without controllers and one native event of
\* every kind the match tells apart.
FanOutSettings ==
    {s \in WindowSettings :
        s.graphics_api = None /\ ~s.controllers /\ s.automatic_close}

FanOutEventSet ==
    {KeyEvent("A", 38, "Press"), KeyEvent("A", 38, "Release"), KeyRepeat,
     EscapePress,
     MouseButtonEvent("Button1", "Press"), MouseButtonEvent("Button1", "Release"),
     MouseButtonEvent("Button1", "Repeat"),
     CharEvent("x"), ScrollEvent(0, 1), SizeEvent(800, 600), FocusEvent(TRUE),
     CursorEnterEvent(FALSE), FileDropEvent(<<"a.txt", "b.txt">>), PosEvent(3, 4)}

FanOutNext ==
    \/ \E s \in FanOutSettings : New(s, TRUE, TRUE)
    \/ PollEvent
    \/ \E e \in FanOutEventSet : NativeEvent(e)

FanOutSpec == Init /\ [][FanOutNext]_vars

(***************************************************************************)
(* What the properties below read.                                         *)
(***************************************************************************)
Range(seq) == {seq[i] : i \in DOMAIN seq}

\* The entries in the queue and the one handed out by the last call.
Delivered == Range(ret.value)
Entries == Range(event_queue) \cup Delivered

\* The entries the step pushed: those numbered from the old push count on.
Pushed == {e \in Range(event_queue') \cup Range(ret'.value) : e.seq >= pushed}

\* A step of poll_event or wait_event_timeout, and one of those and of
\* wait_event that pumps and flushes.
PollStep == PollEvent \/ WaitEventTimeout
FlushStep == (PollStep /\ Len(event_queue) = 0) \/ WaitEventsWake

\* C1: Inputs leave the queue in the order they were pushed, each exactly
\* once: the queue holds the pushes not yet returned, in push order and
\* without a gap, and the Input a call returns is the oldest of them; window
\* Inputs keep the order of their native messages, and in the queue no
\* controller Input stands before a window Input.
C1_QueueOrder ==
    /\ pushed = returned + Len(event_queue)
    /\ \A i \in DOMAIN event_queue : event_queue[i].seq = returned + i - 1
    /\ \A e \in Delivered : e.seq = returned - 1
    /\ \A i, k \in DOMAIN event_queue :
          i < k =>
            /\ event_queue[i].from = "controller" => event_queue[k].from = "controller"
            /\ event_queue[k].from = "window" => event_queue[i].t <= event_queue[k].t
    /\ \A e \in Range(event_queue) : e.from = "window" => last_time <= e.t
    /\ \A e \in Delivered : e.from = "window" => e.t <= last_time

\* C1 witness: a call has returned a window Input of a flush whose
\* controller Input is still queued.
C1_Witness ==
    /\ \E e \in Delivered : e.from = "window"
    /\ event_queue # <<>>
    /\ Head(event_queue).from = "controller"

\* The update of joystick j in this flush works on a connected helper
\* whose device is present.
Diffed(j) == joysticks[j].connected /\ hardware[j].present

\* The flush pushed a ControllerAxis for axis i - 1 of joystick j with the
\* polled value; a controller Button for button i - 1 with the polled state.
AxisPushed(j, i) ==
    \E e \in Pushed : e.input = ControllerAxis(j - 1, i - 1, hardware[j].axes[i])
ButtonPushed(j, i) ==
    \E e \in Pushed :
        e.input = InputButton(IF hardware[j].buttons[i] > 0 THEN "Press" ELSE "Release",
                              Controller(j - 1, i - 1), None)

\* C2: on a flush, for a joystick already marked connected, an axis with a
\* stored value gets a ControllerAxis event exactly when the polled value
\* differs from the stored one and is not below the deadzone, a button with
\* a stored state gets a Button event exactly when its polled state (raw
\* value > 0) differs from the stored one; in those cases the stored value
\* becomes the polled one, otherwise it stays.
C2_AxisDiff(j, i) ==
    LET a == hardware[j].axes[i]
        previous == joysticks[j].axes[i - 1]
        changed == a # previous /\ ~(Abs(a) < joystick_deadzone)
    IN  /\ AxisPushed(j, i) <=> changed
        /\ joysticks'[j].axes[i - 1] = IF changed THEN a ELSE previous
C2_ButtonDiff(j, i) ==
    LET pressed == hardware[j].buttons[i] > 0
        previous == joysticks[j].buttons[i - 1]
        changed == pressed # previous
    IN  /\ ButtonPushed(j, i) <=> changed
        /\ joysticks'[j].buttons[i - 1] = IF changed THEN pressed ELSE previous
C2_Diff ==
    \A j \in DOMAIN joysticks :
        Diffed(j) =>
          /\ \A i \in DOMAIN hardware[j].axes :
                (i - 1) \in DOMAIN joysticks[j].axes => C2_AxisDiff(j, i)
          /\ \A i \in DOMAIN hardware[j].buttons :
                (i - 1) \in DOMAIN joysticks[j].buttons => C2_ButtonDiff(j, i)

\* C2: every flush diffs each connected joystick as C2_Diff says.
C2_UpdateDiff == [][FlushStep => C2_Diff]_vars

\* The flush reaches the axis test for axis i - 1 of joystick j: no update
\* before it panics and the axes up to it have stored values.
Complete(j) ==
    Diffed(j) =>
      /\ \A i \in DOMAIN hardware[j].axes : (i - 1) \in DOMAIN joysticks[j].axes
      /\ \A i \in DOMAIN hardware[j].buttons : (i - 1) \in DOMAIN joysticks[j].buttons
AxisReached(j, i) ==
    /\ Diffed(j)
    /\ \A k \in 1..(j - 1) : Complete(k)
    /\ \A k \in 1..i : (k - 1) \in DOMAIN joysticks[j].axes

\* C3: no ControllerAxis Input, queued or returned, has a value strictly
\* below (in absolute value) the deadzone in effect at the update that
\* produced it; and with a deadzone of 0 every axis the update reaches
\* whose polled value differs from the stored one gets its event and its
\* new stored value.
C3_AboveDeadzone ==
    \A e \in Entries :
        IsMotion(e.input, "ControllerAxis") => ~(Abs(e.input.position) < e.deadzone)
C3_NothingFilteredAtZero ==
    (FlushStep /\ joystick_deadzone = 0) =>
        \A j \in DOMAIN joysticks : \A i \in DOMAIN hardware[j].axes :
            (AxisReached(j, i) /\ hardware[j].axes[i] # joysticks[j].axes[i - 1]) =>
                /\ AxisPushed(j, i)
                /\ joysticks'[j].axes[i - 1] = hardware[j].axes[i]

\* C3: no axis event is ever below its deadzone, and a deadzone of 0
\* filters nothing.
C3_Deadzone == [](C3_AboveDeadzone) /\ [][C3_NothingFilteredAtZero]_vars

\* C3 witness: an axis event produced under a deadzone of 1 is queued or
\* returned, and the axis has since come to rest inside the deadzone.
C3_Witness ==
    \E e \in Entries :
        /\ IsMotion(e.input, "ControllerAxis")
        /\ e.deadzone = 1
        /\ joystick_deadzone = 1
        /\ hardware[e.input.id + 1].present
        /\ e.input.axis + 1 \in DOMAIN hardware[e.input.id + 1].axes
        /\ hardware[e.input.id + 1].axes[e.input.axis + 1] = 0

\* The position of CursorPos message k of the channel, and the position
\* recorded when the flush comes to it.
PosOf(k) == <<events[k][2].x, events[k][2].y>>
IsCursorPos(k) == events[k][2].type = "CursorPos"
Max(S) == CHOOSE m \in S : \A n \in S : n <= m
PrevPos(k) ==
    LET earlier == {m \in 1..(k - 1) : IsCursorPos(m)}
    IN  IF earlier = {} THEN last_mouse_pos ELSE Some(PosOf(Max(earlier)))
Minus(p, q) == <<p[1] - q[1], p[2] - q[2]>>

\* The entry right after e: the next in the queue, or the head of the queue
\* when e is the one just returned.
Successor(e) ==
    {x \in Range(event_queue) : x.seq = e.seq + 1}

\* C4: every CursorPos(x, y) flushed pushes MouseCursor([x, y]), produced
\* with the position recorded just before it; a MouseCursor produced with a
\* recorded position (lx, ly) is immediately followed by
\* MouseRelative([x - lx, y - ly]), one produced with none is not followed
\* by a MouseRelative, and every MouseRelative follows its MouseCursor;
\* after the flush the recorded position is that of the last CursorPos. The
\* first push of all has no recorded position, and the MouseRelative deltas
\* pushed since the last reset sum to the last minus the first position
\* pushed since then.
C4_RelativeFollows ==
    /\ \A e \in Entries :
          IsMotion(e.input, "MouseCursor") /\ e.seq < pushed - 1 =>
             \E x \in Successor(e) :
                IF IsSome(e.last)
                THEN /\ x.input = MouseRelative(Minus(e.input.pos, Unwrap(e.last)))
                     /\ x.t = e.t
                ELSE ~IsMotion(x.input, "MouseRelative")
    /\ \A e \in Entries :
          IsMotion(e.input, "MouseCursor") /\ e.seq = pushed - 1 => ~IsSome(e.last)
    /\ \A x \in Range(event_queue) :
          IsMotion(x.input, "MouseRelative") =>
             \E e \in Entries :
                /\ e.seq = x.seq - 1
                /\ IsMotion(e.input, "MouseCursor")
                /\ IsSome(e.last)
C4_Telescope ==
    /\ IsSome(mouse.first) <=> IsSome(last_mouse_pos)
    /\ mouse.last = last_mouse_pos
    /\ IsSome(mouse.first) =>
          mouse.sum = Minus(Unwrap(mouse.last), Unwrap(mouse.first))
C4_First ==
    \A e \in Entries :
        e.seq = 0 /\ IsMotion(e.input, "MouseCursor") => ~IsSome(e.last)
C4_EveryCursorPos ==
    FlushStep =>
      /\ \A k \in DOMAIN events :
            IsCursorPos(k) =>
               \E e \in Pushed :
                  /\ e.t = events[k][1]
                  /\ e.input = MouseCursor(PosOf(k))
                  /\ e.last = PrevPos(k)
      /\ last_mouse_pos' = PrevPos(Len(events) + 1)

\* C4: CursorPos yields MouseCursor, then MouseRelative of the difference
\* whenever a position is recorded, and the deltas telescope.
C4_MouseMotion ==
    /\ [](C4_RelativeFollows /\ C4_Telescope /\ C4_First)
    /\ [][C4_EveryCursorPos]_vars

\* C4 witness: three cursor positions have been flushed since the window
\* was created, the last two with a relative motion that is still queued.
C4_Witness ==
    /\ pushed >= 5
    /\ mouse.sum # <<0, 0>>
    /\ \E x \in Range(event_queue) : IsMotion(x.input, "MouseRelative")

\* C9 as stated: no MouseRelative of zero delta is ever queued or returned.
C9_NoZeroRelative ==
    \A e \in Entries :
        ~(IsMotion(e.input, "MouseRelative") /\ e.input.pos = <<0, 0>>)

\* C9 as amended: relative motion is not deduplicated; a CursorPos whose
\* coordinates equal the position recorded just before it pushes, beside
\* its MouseCursor, a MouseRelative([0, 0]).
C9_ZeroRelative ==
    FlushStep =>
       \A k \in DOMAIN events :
          (IsCursorPos(k) /\ PrevPos(k) = Some(PosOf(k))) =>
             \E e \in Pushed :
                /\ e.t = events[k][1]
                /\ e.input = MouseRelative(<<0, 0>>)

\* C9 (amended): every flush pushes the zero-delta MouseRelative of a
\* CursorPos at the recorded position.
C9_NotDeduplicated == [][C9_ZeroRelative]_vars

\* C9 witness: a MouseRelative([0, 0]) is queued or has been returned.
C9_Witness ==
    \E e \in Entries :
        IsMotion(e.input, "MouseRelative") /\ e.input.pos = <<0, 0>>

\* A flush now would push at least one Input: a native message in the
\* channel, or a controller change, maps to an Input.
InputPending == flush_messages.st.q # <<>>

\* wait_event has never returned without an Input, and a wake-up whose
\* flush pushes nothing leaves it waiting.
C5_NeverWithoutInput ==
    ret.op = "wait_event" => IsSome(ret.value)
C5_EmptyWakeLoops ==
    [][(pc = "wait_events" /\ pc' = "idle") => pushed' > pushed]_vars

\* C5: wait_event, blocked on an empty queue, eventually returns once a
\* native event or a controller change that maps to an Input has occurred.
C5_WaitEventReturns ==
    (pc = "wait_events" /\ InputPending) ~> (pc = "idle")

\* C6: after set_title(v), get_title() returns v.
C6_TitleRemembered ==
    [][\A v \in Titles : SetTitle(v) => get_title' = v]_vars

\* C7 as stated: new with settings whose API is not OpenGL returns
\* UnsupportedGraphicsApiError { found, expected: ["OpenGL"] } and makes no
\* native window and no GlfwWindow.
C7_UnsupportedApi ==
    [][\A s \in WindowSettings, i \in BOOLEAN, c \in BOOLEAN :
          (New(s, i, c) /\ GraphicsApi(s).api # "OpenGL") =>
             /\ result' = Err(UnsupportedGraphicsApiError(GraphicsApi(s).api,
                                                            <<"OpenGL">>))
             /\ ~window'.created
             /\ pc' = "failed"]_vars

\* C7 as amended: new initialises GLFW before it looks at the API. With an
\* API that is not OpenGL it returns UnsupportedGraphicsApiError { found,
\* expected: ["OpenGL"] } when GLFW initialises and the initialisation
\* error when it does not, and in both cases makes no native window and no
\* GlfwWindow; settings that name no API are taken as OpenGL 3.2 and pass
\* the check.
C7_ApiCheckedAfterInit ==
    [][\A s \in WindowSettings, i \in BOOLEAN, c \in BOOLEAN :
          New(s, i, c) =>
             /\ GraphicsApi(s).api # "OpenGL" =>
                   /\ result' = IF i
                                THEN Err(UnsupportedGraphicsApiError(
                                            GraphicsApi(s).api, <<"OpenGL">>))
                                ELSE Err(InitError)
                   /\ ~window'.created
                   /\ pc' = "failed"
             /\ s.graphics_api = None =>
                   /\ GraphicsApi(s) = ApiOpenGL(3, 2)
                   /\ (i /\ c) => (result' = Ok /\ window'.created /\ pc' = "idle")
                   /\ result'.kind = "Err" => result'.error \in {InitError, CreateWindowError}]_vars

\* C7 witness: new has returned the unsupported-API error for Vulkan, with
\* no native window.
C7_Witness ==
    /\ result = Err(UnsupportedGraphicsApiError("Vulkan", <<"OpenGL">>))
    /\ ~window.created
    /\ pc = "failed"

\* C8 as stated, for a capacity below the number of native events and
\* controller changes the environment sends: the queue never reaches it.
C8_Bounded == Len(event_queue) < MaxEnvSteps

\* C8 as amended: the queue has no capacity. It grows only in a step that
\* starts from the empty queue and pushes, as a flush does, and then holds
\* what was pushed less the one Input returned; a step pushes at most two
\* Inputs per native event in the channel and one per axis and button of
\* each controller; and the queue shrinks only by the one Input returned.
C8_Growth ==
    /\ Len(event_queue') > Len(event_queue) =>
          /\ Len(event_queue) = 0
          /\ events' = <<>>
          /\ Len(event_queue') + (returned' - returned) = pushed' - pushed
    /\ pushed' - pushed <= 2 * Len(events) + NumJoysticks * 2 * MaxControls
    /\ pushed' > pushed => Len(event_queue) = 0
    /\ Len(event_queue') < Len(event_queue) =>
          /\ Len(event_queue') = Len(event_queue) - 1
          /\ returned' = returned + 1
          /\ pushed' = pushed

\* C8 (amended): the queue grows only in a flush from the empty queue, by
\* what the flush pushes.
C8_GrowsOnlyWhenEmpty == [][C8_Growth]_vars

\* C8 witness: the queue holds at least as many Inputs as the environment
\* sent native events and controller changes.
C8_Witness ==
    /\ Len(event_queue) >= MaxEnvSteps
    /\ clock + hw_changes = MaxEnvSteps

\* C10: poll_event and wait_event_timeout called with a non-empty queue
\* return its head and leave the native event channel, last_mouse_pos, the
\* window (its should_close flag) and the joysticks' stored state as they
\* were; called with an empty queue they pump the channel; and they return
\* None exactly when the queue was empty and the flush pushed nothing.
C10_Frame ==
    PollStep =>
       /\ Len(event_queue) > 0 =>
             /\ ret'.value = Some(Head(event_queue))
             /\ event_queue' = Tail(event_queue)
             /\ UNCHANGED <<events, last_mouse_pos, window, joysticks>>
       /\ Len(event_queue) = 0 => events' = <<>>
       /\ pc' # "panicked" =>
             /\ ret'.op \in {"poll_event", "wait_event_timeout"}
             /\ ret'.value = None <=> (Len(event_queue) = 0 /\ pushed' = pushed)

\* C10: poll_event and wait_event_timeout pump and flush only on an empty
\* queue, and return None exactly when the flush pushed nothing.
C10_PumpOnlyWhenEmpty == [][C10_Frame]_vars

\* C10 witness: a call has returned a MouseRelative, which is never the
\* first Input of a flush, so from a non-empty queue, while an Escape press
\* that would set should_close waits in the channel.
C10_Witness ==
    /\ ret.op \in {"poll_event", "wait_event_timeout"}
    /\ IsSome(ret.value)
    /\ IsMotion(Unwrap(ret.value).input, "MouseRelative")
    /\ \E k \in DOMAIN events : events[k][2] = EscapePress
    /\ exit_on_esc
    /\ ~window.should_close

\* Entry e is a controller Input of joystick j.
FromController(e, j) ==
    /\ e.from = "controller"
    /\ IF e.input.kind = "Button" THEN e.input.button.id = j - 1
       ELSE e.input.id = j - 1

\* The flush reaches the update of joystick j, and that update is the one
\* that first sees the device: present and not yet marked connected.
Reached(j) == \A k \in 1..(j - 1) : Complete(k)
FirstSeen(j) == hardware[j].present /\ ~joysticks[j].connected /\ Reached(j)

\* C11: the update that first sees a joystick present enqueues nothing for
\* it and takes the hardware state as the baseline: connected is true, every
\* axis is stored with its polled value and every button with whether it is
\* pressed (raw value > 0).
C11_Baseline ==
    FlushStep =>
       \A j \in DOMAIN joysticks :
          FirstSeen(j) =>
             /\ joysticks'[j].connected
             /\ ~\E e \in Pushed : FromController(e, j)
             /\ DOMAIN joysticks'[j].axes = {i - 1 : i \in DOMAIN hardware[j].axes}
             /\ DOMAIN joysticks'[j].buttons = {i - 1 : i \in DOMAIN hardware[j].buttons}
             /\ \A i \in DOMAIN hardware[j].axes :
                   joysticks'[j].axes[i - 1] = hardware[j].axes[i]
             /\ \A i \in DOMAIN hardware[j].buttons :
                   joysticks'[j].buttons[i - 1] = (hardware[j].buttons[i] > 0)
C11_BaselineTaken == [][C11_Baseline]_vars

\* C12: whenever a flush reaches the diffing loops of a joystick (present
\* and marked connected), the stored maps have an entry for every axis and
\* button the hardware reports, and the flush does not panic.
C12_Unwrap ==
    FlushStep =>
       /\ \A j \in DOMAIN joysticks : (Reached(j) /\ Diffed(j)) => Complete(j)
       /\ pc' # "panicked"
C12_UnwrapNeverPanics == [][C12_Unwrap]_vars

\* The indexes under which the controls of a device are stored.
Keys(controls) == {i - 1 : i \in DOMAIN controls}

\* C13: the update that sees a connected joystick absent marks it
\* disconnected, empties both stored maps and enqueues nothing for it;
\* updates while it stays absent change nothing and enqueue nothing; a
\* helper that is not connected stores nothing, so the update that sees a
\* device again connects it, enqueues nothing and stores exactly the
\* controls of that device.
C13_Update ==
    FlushStep =>
       \A j \in DOMAIN joysticks :
          Reached(j) =>
             /\ (~hardware[j].present /\ joysticks[j].connected) =>
                   /\ joysticks'[j] = NewJoystickHelper(j - 1)
                   /\ ~\E e \in Pushed : FromController(e, j)
             /\ (~hardware[j].present /\ ~joysticks[j].connected) =>
                   /\ joysticks'[j] = joysticks[j]
                   /\ ~\E e \in Pushed : FromController(e, j)
             /\ (hardware[j].present /\ ~joysticks[j].connected) =>
                   /\ joysticks'[j].connected
                   /\ DOMAIN joysticks'[j].axes = Keys(hardware[j].axes)
                   /\ DOMAIN joysticks'[j].buttons = Keys(hardware[j].buttons)
                   /\ \A i \in DOMAIN hardware[j].axes :
                         joysticks'[j].axes[i - 1] = hardware[j].axes[i]
                   /\ ~\E e \in Pushed : FromController(e, j)
C13_NothingStored ==
    \A j \in DOMAIN joysticks :
        ~joysticks[j].connected => joysticks[j] = NewJoystickHelper(j - 1)

\* C13: a joystick seen absent is forgotten silently and reconnects afresh.
C13_Disconnect == [](C13_NothingStored) /\ [][C13_Update]_vars

\* C13 witness: a joystick was connected, one change of it was reported
\* and returned, and it has since been seen absent: its helper is
\* disconnected with empty maps and nothing more was pushed.
C13_Witness ==
    \E j \in DOMAIN joysticks :
        /\ ~hardware[j].present
        /\ joysticks[j] = NewJoystickHelper(j - 1)
        /\ hw_changes >= 3
        /\ pushed = 1
        /\ returned = 1
        /\ ret.value = None

\* Message k of the channel is the native event ev; the flush pushed the
\* Input inp for message k, and pushed nothing for it.
IsEvent(k, ev) == events[k][2] = ev
PushedFor(k, inp) == \E e \in Pushed : e.t = events[k][1] /\ e.input = inp
NothingPushedFor(k) == ~\E e \in Pushed : e.from = "window" /\ e.t = events[k][1]

\* A Close that automatic_close = false answers stands after message k.
CloseResetAfter(k) ==
    ~automatic_close /\ \E m \in (k + 1)..Len(events) : IsEvent(m, CloseEvent)

\* C14: on a flush, an Escape Press with exit_on_esc set pushes no Input and
\* sets should_close (it stays set unless a later Close of the same flush
\* resets it); with exit_on_esc clear it pushes the keyboard Press of
\* Key::Escape, and a flush of key events only, none of them an Escape
\* Press under exit_on_esc, leaves should_close as it was; the Escape
\* Release is pushed either way. set_exit_on_esc changes the flag only.
C14_Flush ==
    FlushStep =>
       /\ \A k \in DOMAIN events :
             /\ (IsEvent(k, EscapePress) /\ exit_on_esc) =>
                   /\ NothingPushedFor(k)
                   /\ ~CloseResetAfter(k) => window'.should_close
             /\ (IsEvent(k, EscapePress) /\ ~exit_on_esc) =>
                   PushedFor(k, InputButton("Press", Keyboard("Escape"), Some(9)))
             /\ IsEvent(k, EscapeRelease) =>
                   PushedFor(k, InputButton("Release", Keyboard("Escape"), Some(9)))
       /\ (\A k \in DOMAIN events :
              events[k][2].type = "Key" /\ ~(IsEvent(k, EscapePress) /\ exit_on_esc)) =>
             window'.should_close = window.should_close
C14_Setter ==
    \A v \in BOOLEAN :
        SetExitOnEsc(v) =>
           /\ exit_on_esc' = v
           /\ UNCHANGED <<window, events, event_queue, pushed, returned, ret>>

\* C14: Escape closes the window exactly when exit_on_esc is set at the
\* flush, and is an ordinary key otherwise.
C14_ExitOnEsc == [][C14_Flush /\ C14_Setter]_vars

\* C14 witness: an Escape Press was flushed with exit_on_esc set: the window
\* is to close and the only Input ever pushed is the Release just returned.
C14_Witness ==
    /\ exit_on_esc
    /\ window.should_close
    /\ result = Ok
    /\ events = <<>>
    /\ clock >= 2
    /\ pushed = 1
    /\ \E e \in Delivered :
          e.input = InputButton("Release", Keyboard("Escape"), Some(9))

\* The Close messages of the channel; an Escape Press that exit_on_esc
\* answers stands after message k.
Closes == {k \in DOMAIN events : IsEvent(k, CloseEvent)}
ExitPressAfter(k) ==
    exit_on_esc /\ \E m \in (k + 1)..Len(events) : IsEvent(m, EscapePress)

\* On a flush every Close pushes exactly one Input, Input::Close. After a
\* flush with a Close, should_close is true under automatic_close (as the
\* window system set it) and, without automatic_close, only when an Escape
\* Press under exit_on_esc follows the last Close; after a flush without a
\* Close it is what it was, or true by an Escape Press under exit_on_esc.
C15_Flush ==
    FlushStep =>
       /\ \A k \in Closes :
             /\ PushedFor(k, InputClose)
             /\ Cardinality({e \in Pushed : e.from = "window" /\ e.t = events[k][1]}) = 1
       /\ Closes # {} =>
             window'.should_close = (automatic_close \/ ExitPressAfter(Max(Closes)))
       /\ Closes = {} =>
             window'.should_close = (window.should_close \/ ExitPressAfter(0))

\* C15 as stated, its last sentence: after a flush with automatic_close
\* false, should_close is true only if set_should_close or an Escape Press
\* under exit_on_esc set it.
C15_ClosedOnlyByProgram ==
    [][(FlushStep /\ ~automatic_close /\ window'.should_close) =>
          window'.closed_by \in {"set_should_close", "escape"}]_vars

\* C15 as amended: the first sentence, and after a flush with
\* automatic_close false should_close is true only if set_should_close or
\* an Escape Press under exit_on_esc set it, or if the window system set it
\* for a Close flushed earlier, while automatic_close was true, and the
\* flush holds no Close.
C15_Close ==
    [][/\ C15_Flush
       /\ (FlushStep /\ ~automatic_close /\ window'.should_close) =>
             \/ window'.closed_by \in {"set_should_close", "escape"}
             \/ /\ window'.closed_by = "native"
                /\ Closes = {}
                /\ window.should_close
                /\ window.closed_by = "native"]_vars

\* C15 witness: a Close was flushed and returned under automatic_close,
\* automatic_close is now false, and should_close is still true by the
\* window system.
C15_Witness ==
    /\ ~automatic_close
    /\ window.should_close
    /\ window.closed_by = "native"
    /\ events = <<>>
    /\ event_queue = <<>>
    /\ returned >= 1
    /\ ret.value = None

\* The first CursorPos message of the channel, if there is one.
CursorPosMessages == {k \in DOMAIN events : IsCursorPos(k)}
FirstCursorPos == CHOOSE k \in CursorPosMessages : \A m \in CursorPosMessages : k <= m

\* C16: set_capture_cursor(false) clears last_mouse_pos and
\* set_capture_cursor(true) leaves it; neither touches the event queue, the
\* channel or what was returned. The first CursorPos flushed while no
\* position is recorded pushes its MouseCursor and no MouseRelative; the
\* first one flushed while a position is recorded pushes MouseRelative of
\* the difference to that position.
C16_Calls ==
    /\ SetCaptureCursor(FALSE) =>
          /\ last_mouse_pos' = None
          /\ window'.cursor_mode = "Normal"
          /\ UNCHANGED <<event_queue, events, pushed, returned, ret>>
    /\ SetCaptureCursor(TRUE) =>
          /\ window'.cursor_mode = "Disabled"
          /\ UNCHANGED <<last_mouse_pos, event_queue, events, pushed, returned, ret>>
C16_FirstCursorPos ==
    (FlushStep /\ CursorPosMessages # {}) =>
       LET k == FirstCursorPos
       IN  /\ PushedFor(k, MouseCursor(PosOf(k)))
           /\ IF IsSome(last_mouse_pos)
              THEN PushedFor(k, MouseRelative(Minus(PosOf(k), Unwrap(last_mouse_pos))))
              ELSE ~\E e \in Pushed :
                       e.t = events[k][1] /\ IsMotion(e.input, "MouseRelative")
C16_CaptureCursor == [][C16_Calls /\ C16_FirstCursorPos]_vars

\* C16 witness: the second Input ever pushed is a MouseCursor, so the
\* position recorded by the first was cleared before the second CursorPos
\* was flushed; it has been returned while the cursor is captured again.
C16_Witness ==
    /\ window.cursor_mode = "Disabled"
    /\ IsSome(last_mouse_pos)
    /\ \E e \in Delivered :
          /\ e.seq = 1
          /\ IsMotion(e.input, "MouseCursor")
          /\ ~IsSome(e.last)

\* The flush pushed some ControllerAxis for axis i - 1 of joystick j.
AnyAxisPushed(j, i) ==
    \E e \in Pushed :
        /\ IsMotion(e.input, "ControllerAxis")
        /\ e.input.id = j - 1
        /\ e.input.axis = i - 1

\* C17: an update that finds an axis inside the deadzone, or at its stored
\* value, keeps the stored value and enqueues nothing for the axis; one that
\* finds it outside the deadzone at another value enqueues one ControllerAxis
\* with that value and stores it. So an excursion to v is reported once,
\* the return inside the deadzone is not, the stored value stays v, and a
\* second excursion to v is not reported.
C17_Axis ==
    FlushStep =>
       \A j \in DOMAIN joysticks : \A i \in DOMAIN hardware[j].axes :
          AxisReached(j, i) =>
             LET a == hardware[j].axes[i]
                 previous == joysticks[j].axes[i - 1]
             IN  IF Abs(a) < joystick_deadzone \/ a = previous
                 THEN /\ joysticks'[j].axes[i - 1] = previous
                      /\ ~AnyAxisPushed(j, i)
                 ELSE /\ joysticks'[j].axes[i - 1] = a
                      /\ AxisPushed(j, i)
                      /\ Cardinality({e \in Pushed :
                            /\ IsMotion(e.input, "ControllerAxis")
                            /\ e.input.id = j - 1
                            /\ e.input.axis = i - 1}) = 1
C17_DeadzoneExcursion == [][C17_Axis]_vars

\* C17 witness: an axis went out to -2 under a deadzone of 1, which was
\* reported and returned, and has come back to 0: the stored value is
\* still -2 and nothing else was pushed.
C17_Witness ==
    \E j \in DOMAIN joysticks :
        /\ joystick_deadzone = 1
        /\ Diffed(j)
        /\ hardware[j].axes = <<0>>
        /\ joysticks[j].axes = (0 :> -2)
        /\ pushed = 1
        /\ returned = 1
        /\ ret.value = None

\* The Inputs the flush pushed for message k, in push order.
PushedSetFor(k) == {e \in Pushed : e.from = "window" /\ e.t = events[k][1]}
PushedSeqFor(k) ==
    LET S == PushedSetFor(k)
        first == CHOOSE m \in {e.seq : e \in S} : \A e \in S : m <= e.seq
    IN  [i \in 1..Cardinality(S) |->
            (CHOOSE e \in S : e.seq = first + i - 1).input]
Contiguous(k) ==
    LET S == PushedSetFor(k)
    IN  \A e \in S : \A x \in S :
           \A n \in (e.seq)..(x.seq) : \E y \in S : y.seq = n

\* The fan-out of one native event: a Press or Release of a key or mouse
\* button is one Button Input, Char, Scroll, Size, Focus and CursorEnter one
\* Input each, FileDrop one FileDrag::Drop per file in file order, anything
\* else nothing. With exit set, the Escape Press under exit_on_esc is
\* nothing.
FanOut(event, exit, size) ==
    IF exit /\ event = EscapePress THEN <<>>
    ELSE IF event.type = "Key" /\ event.action \in {"Press", "Release"}
    THEN <<InputButton(event.action, Keyboard(glfw_map_key(event.key)),
                       Some(event.scancode))>>
    ELSE IF event.type = "MouseButton" /\ event.action \in {"Press", "Release"}
    THEN <<InputButton(event.action, Mouse(glfw_map_mouse(event.button)), None)>>
    ELSE IF event.type = "Char" THEN <<InputText(event.ch)>>
    ELSE IF event.type = "Scroll" THEN <<MouseScroll(<<event.x, event.y>>)>>
    ELSE IF event.type = "Size" THEN <<InputResize(<<event.w, event.h>>, size)>>
    ELSE IF event.type = "Focus" THEN <<InputFocus(event.focus)>>
    ELSE IF event.type = "CursorEnter" THEN <<InputCursor(event.cursor)>>
    ELSE IF event.type = "FileDrop"
    THEN [i \in DOMAIN event.files |-> FileDragDrop(event.files[i])]
    ELSE <<>>

\* The native events of which the claim says that they enqueue nothing and
\* change no window state.
Silent(event) ==
    \/ event.type \in {"Key", "MouseButton"} /\ event.action = "Repeat"
    \/ event.type \notin {"Key", "MouseButton", "Char", "Scroll", "Size", "Focus",
                          "CursorEnter", "FileDrop", "CursorPos", "Close"}

FanOutHolds(exit) ==
    FlushStep =>
       /\ \A k \in DOMAIN events :
             events[k][2].type \notin {"CursorPos", "Close"} =>
                /\ Contiguous(k)
                /\ PushedSeqFor(k) = FanOut(events[k][2], exit, window'.framebuffer)
       /\ (\A k \in DOMAIN events : Silent(events[k][2])) =>
             /\ pushed' = pushed
             /\ UNCHANGED <<window, last_mouse_pos, event_queue>>

====
